---- MODULE Spec2Model ----
(***************************************************************************)
(* PIX payment generation with provider failover and a per-CPF cache.      *)
(* Strings whose characters the code inspects (CPF, transaction ids, PIX   *)
(* payloads) are sequences of one-character strings; opaque strings        *)
(* (names, e-mails, provider names, status words) are TLA+ strings.        *)
(***************************************************************************)
EXTENDS Integers, Sequences, FiniteSets, TLC

\* ------------------------------------------------------------------------
\* Bounds of the model
\* ------------------------------------------------------------------------
MaxTime == 60            \* the clock (minutes) stops advancing here
TickStep == 30           \* minutes added by one clock step
MaxThreads == 2          \* requests the server handles at the same time

\* ------------------------------------------------------------------------
\* Program constants
\* ------------------------------------------------------------------------
CACHE_WINDOW_MINUTES == 60      \* timedelta(minutes=60)
CPF_DIGITS == 11                \* len(cpf_clean) != 11
AMOUNT_CENTS == 11835           \* amount = 118.35
MAX_RETRIES == 3                \* max_retries=3

\* ------------------------------------------------------------------------
\* Characters
\* ------------------------------------------------------------------------
Digits == {"0", "1", "2", "3", "4", "5", "6", "7", "8", "9"}

IsDigit(c) == c \in Digits

\* ''.join(filter(str.isdigit, s))
FilterDigits(s) == SelectSeq(s, IsDigit)

NotDot(c) == c # "."

NotDash(c) == c # "-"

\* s.replace('.', '').replace('-', '')
StripDotsDashes(s) == SelectSeq(SelectSeq(s, NotDot), NotDash)

\* ------------------------------------------------------------------------
\* Request inputs
\* ------------------------------------------------------------------------
CpfPlain == <<"1", "1", "1", "4", "4", "4", "7", "7", "7", "3", "5">>

CpfDotted == <<"1", "1", "1", ".", "4", "4", "4", ".", "7", "7", "7", "-", "3", "5">>

CpfSpaced == <<"1", "1", "1", " ", "4", "4", "4", " ", "7", "7", "7", " ", "3", "5">>

CpfShort == <<"1", "2", "3">>

CpfMissing == << >>

CpfInputs == {CpfPlain, CpfDotted, CpfSpaced, CpfShort, CpfMissing}

NameInputs == {"", "Maria Souza"}

EmailInputs == {"", "m@x.com"}

\* the JSON bodies posted to /generate-pix
Inputs ==
    {[cpf |-> c, name |-> "Maria Souza", email |-> "m@x.com"] : c \in CpfInputs}
    \cup {[cpf |-> CpfPlain, name |-> "", email |-> "m@x.com"],
          [cpf |-> CpfPlain, name |-> "Maria Souza", email |-> ""]}

NoInput == [cpf |-> << >>, name |-> "", email |-> ""]

Requests == {1, 2, 3}

ReqChar(r) == IF r = 1 THEN "1" ELSE IF r = 2 THEN "2" ELSE "3"

\* ------------------------------------------------------------------------
\* String helpers (Python str operations on character sequences)
\* ------------------------------------------------------------------------
Min(a, b) == IF a <= b THEN a ELSE b

\* s[:n]
Take(s, n) == SubSeq(s, 1, Min(n, Len(s)))

\* s[-n:]
LastN(s, n) == SubSeq(s, Len(s) - Min(n, Len(s)) + 1, Len(s))

\* s.startswith(p)
StartsWith(s, p) == Len(s) >= Len(p) /\ SubSeq(s, 1, Len(p)) = p

DigitChars == <<"0", "1", "2", "3", "4", "5", "6", "7", "8", "9">>

DigitChar(d) == DigitChars[d + 1]

RECURSIVE Dec(_)
\* str(n) of an int
Dec(n) ==
    IF n < 0 THEN <<"-">> \o Dec(-n)
    ELSE IF n < 10 THEN <<DigitChar(n)>>
    ELSE Dec(n \div 10) \o <<DigitChar(n % 10)>>

RECURSIVE ZeroPad(_, _)
\* zero-fill on the left up to width w (never truncates)
ZeroPad(s, w) == IF Len(s) >= w THEN s ELSE ZeroPad(<<"0">> \o s, w)

\* f"{n:02d}"
Fmt02d(n) == ZeroPad(Dec(n), 2)

\* f"{n:04d}"
Fmt04d(n) == ZeroPad(Dec(n), 4)

RECURSIVE LJust(_, _, _)
\* s.ljust(w, ch)
LJust(s, w, ch) == IF Len(s) >= w THEN s ELSE LJust(s \o <<ch>>, w, ch)

\* printable ASCII, code 32 first (code 96 is held by a placeholder)
AsciiTable ==
    <<" ", "!">> \o <<"\"">> \o <<"#", "$", "%", "&", "'", "(", ")", "*", "+", ",", "-", ".", "/", "0", "1", "2", "3", "4", "5", "6", "7", "8", "9", ":", ";", "<", "=", ">", "?", "@">>
    \o <<"A", "B", "C", "D", "E", "F", "G", "H", "I", "J", "K", "L", "M", "N", "O", "P", "Q", "R", "S", "T", "U", "V", "W", "X", "Y", "Z", "[">> \o <<"\\">> \o <<"]", "^", "_", "grave">>
    \o <<"a", "b", "c", "d", "e", "f", "g", "h", "i", "j", "k", "l", "m", "n", "o", "p", "q", "r", "s", "t", "u", "v", "w", "x", "y", "z", "{", "|", "}", "~">>

\* ord(c) of data.encode('ascii')
Ascii(c) == 31 + (CHOOSE i \in 1..Len(AsciiTable) : AsciiTable[i] = c)

HexChars == <<"0", "1", "2", "3", "4", "5", "6", "7", "8", "9", "A", "B", "C", "D", "E", "F">>

\* f"{n:04X}" for 0 <= n < 65536
Fmt04X(n) ==
    <<HexChars[((n \div 4096) % 16) + 1], HexChars[((n \div 256) % 16) + 1],
      HexChars[((n \div 16) % 16) + 1], HexChars[(n % 16) + 1]>>

RECURSIVE XorBits(_, _, _)
XorBits(a, b, n) ==
    IF n = 0 THEN 0
    ELSE ((((a % 2) + (b % 2)) % 2)) + (2 * XorBits(a \div 2, b \div 2, n - 1))

\* crc ^= byte << 8: the byte meets the high half of the 16-bit register
XorHighByte(crc, byte) == (XorBits(crc \div 256, byte, 8) * 256) + (crc % 256)

\* x with bit k (of weight w = 2^k) inverted
FlipBit(x, w) == IF (x \div w) % 2 = 1 THEN x - w ELSE x + w

\* x ^ 0x1021: bits 12, 5 and 0
XorPoly(x) == FlipBit(FlipBit(FlipBit(x, 4096), 32), 1)

\* one turn of the inner loop: shift left, xor 0x1021 when the top bit was
\* set, keep 16 bits
CrcShift(crc) ==
    IF crc >= 32768 THEN XorPoly((crc * 2) % 65536) ELSE (crc * 2) % 65536

RECURSIVE CrcShiftN(_, _)
CrcShiftN(crc, n) == IF n = 0 THEN crc ELSE CrcShiftN(CrcShift(crc), n - 1)

RECURSIVE CrcFold(_, _, _, _)
\* the register after the bytes data[lo..hi], taken in order (the range is
\* halved so that the evaluation stays shallow)
CrcFold(data, lo, hi, crc) ==
    IF lo > hi THEN crc
    ELSE IF lo = hi THEN CrcShiftN(XorHighByte(crc, Ascii(data[lo])), 8)
    ELSE LET mid == (lo + hi) \div 2
             left == CrcFold(data, lo, mid, crc)
         IN  IF left < 0 THEN left ELSE CrcFold(data, mid + 1, hi, left)

\* validate_pix.calculate_crc16_ccitt: initial value 0xFFFF
calculate_crc16_ccitt(data) == Fmt04X(CrcFold(data, 1, Len(data), 65535))

\* the base64 data URI of the rendered image: a function of the payload that
\* is never the payload itself
QrDataUri(pix_code) == <<"d", "a", "t", "a", ":", "i", "m", "a", "g", "e", "/", "p", "n", "g", ";", "b", "a", "s", "e", "6", "4", ",">> \o pix_code

\* ------------------------------------------------------------------------
\* Provider adapters.  `data` is the payment data handed to the adapter,
\* [name, email, cpf, phone, amount] with the amount in hundredths of a real;
\* `env` is what the network and the provider do during the call:
\*   failures  connection attempts that raise before one is answered
\*   code      HTTP status of the answer
\*   body      the answer's body: json (parses as JSON), success flag,
\*             has_id/id, pix (payload), status, amount (-1: absent)
\*   qr_ok     the QR image library renders the payload
\*   token     IRONPAY_API_TOKEN is set
\*   uuid      uuid4().hex[:10] drawn by the call
\*   pyhash    abs(hash(str)) of the interpreter for the simulated payload
\* ------------------------------------------------------------------------
NoResp ==
    [transaction_id |-> << >>, pix_code |-> << >>, pix_qr_code |-> << >>,
     status |-> "", amount |-> 0]

\* an exception leaving the adapter after `sent` HTTP attempts
Raise(exc, msg, sent) ==
    [ok |-> FALSE, exc |-> exc, msg |-> msg, sent |-> sent, resp |-> NoResp]

Return(resp, sent) ==
    [ok |-> TRUE, exc |-> "", msg |-> "", sent |-> sent, resp |-> resp]

validate_cpf(cpf) ==
    IF cpf = << >>
    THEN [raised |-> TRUE, msg |-> "CPF e obrigatorio", clean |-> << >>]
    ELSE LET cpf_clean == FilterDigits(cpf)
         IN  IF Len(cpf_clean) # CPF_DIGITS
             THEN [raised |-> TRUE, msg |-> "CPF deve ter 11 digitos", clean |-> << >>]
             ELSE [raised |-> FALSE, msg |-> "", clean |-> cpf_clean]

RECURSIVE RetryFrom(_, _, _, _)
\* the for loop of _make_request_with_retry from the turn `attempt` on: the
\* first `failures` attempts raise a RequestException, the one after them
\* ends as `final` says ("response", or "exception" for an exception that is
\* no RequestException).  A loop that ends without a return leaves the
\* function with None.
RetryFrom(max_retries, failures, final, attempt) ==
    IF attempt >= max_retries
    THEN [raised |-> FALSE, none |-> TRUE, attempts |-> attempt]
    ELSE IF attempt >= failures
    THEN [raised |-> final # "response", none |-> FALSE, attempts |-> attempt + 1]
    ELSE IF attempt = max_retries - 1
    THEN [raised |-> TRUE, none |-> FALSE, attempts |-> attempt + 1]
    ELSE RetryFrom(max_retries, failures, final, attempt + 1)

\* `failures` attempts raise a RequestException, then one is answered
make_request_with_retry(max_retries, failures) ==
    RetryFrom(max_retries, failures, "response", 0)

generate_qr_code_base64(pix_code, qr_ok) ==
    IF qr_ok THEN QrDataUri(pix_code) ELSE << >>

\* RequiredFieldsError without the checks of name, e-mail and amount
CpfOnlyError(data) == validate_cpf(data.cpf).msg

\* the checks at the head of create_pix_payment (ZentraPay, Nova Era, PayBets)
RequiredFieldsError(data) ==
    IF data.name = "" \/ data.email = "" \/ data.cpf = << >> \/ data.amount = 0
    THEN "Todos os campos sao obrigatorios: name, email, cpf, amount"
    ELSE IF data.amount <= 0
    THEN "Valor deve ser maior que zero"
    ELSE validate_cpf(data.cpf).msg

\* ZentraParse with a QR rendering failure leaving the parser as an exception
ZentraParseQrAborts(body, original_amount, qr_ok, sent) ==
    IF ~qr_ok
    THEN Raise("Exception", "QR code rendering failed", sent)
    ELSE Return([transaction_id |-> body.id, pix_code |-> body.pix,
                 pix_qr_code |-> QrDataUri(body.pix),
                 status |-> body.status, amount |-> original_amount], sent)

ZentraParse(body, original_amount, qr_ok, sent) ==
    LET transaction_id == IF body.has_id THEN body.id ELSE << >>
        pix_code == body.pix
        status == IF body.status = "absent" THEN "pending" ELSE body.status
        amount == IF body.amount = -1 THEN original_amount ELSE body.amount
    IN  IF transaction_id = << >>
        THEN Raise("ValueError", "ZentraPay nao retornou transaction_id valido", sent)
        ELSE IF pix_code = << >>
        THEN Raise("ValueError", "ZentraPay nao retornou codigo PIX valido", sent)
        ELSE Return([transaction_id |-> transaction_id, pix_code |-> pix_code,
                     pix_qr_code |-> generate_qr_code_base64(pix_code, qr_ok),
                     status |-> status, amount |-> amount], sent)

ZentraCreate(data, env) ==
    IF RequiredFieldsError(data) # ""
    THEN Raise("ValueError", RequiredFieldsError(data), 0)
    ELSE LET rq == make_request_with_retry(MAX_RETRIES, env.failures)
         IN  IF rq.raised
             THEN Raise("RequestException", "connection", rq.attempts)
             ELSE IF env.code \notin {200, 201}
             THEN Raise("RequestException", "API Error", rq.attempts)
             ELSE IF ~env.body.json
             THEN Raise("ValueError", "invalid JSON", rq.attempts)
             ELSE IF env.body.success = "false"
             THEN Raise("RequestException", "ZentraPay Error", rq.attempts)
             ELSE ZentraParse(env.body, data.amount, env.qr_ok, rq.attempts)

RECURSIVE Join(_)
\* "".join(parts)
Join(parts) == IF parts = << >> THEN << >> ELSE Head(parts) \o Join(Tail(parts))

\* the list pix_parts of IronPayAPI._generate_pix_code_simulation
IronPixParts(amount, transaction_hash) ==
    LET cents == Dec(amount)
    IN  <<<<"0", "0", "0", "2", "0", "1", "2", "6">>,
          <<"5", "8", "0", "0", "1", "4", "B", "R", ".", "G", "O", "V", ".", "B", "C", "B", ".", "P", "I", "X">>,
          <<"0", "1", "3", "6">> \o LJust(Take(transaction_hash, 32), 32, "0"),
          <<"5", "2", "0", "4", "0", "0", "0", "0">>,
          <<"5", "3", "0", "3", "9", "8", "6">>,
          <<"5", "4">> \o Fmt02d(Len(cents)) \o cents,
          <<"5", "8", "0", "2", "B", "R">>,
          <<"5", "9", "0", "9", "I", "R", "O", "N", " ", "P", "A", "Y">>,
          <<"6", "0", "0", "8", "B", "R", "A", "S", "I", "L", "I", "A">>,
          <<"6", "2">> \o Fmt02d(Len(transaction_hash) + 4)
              \o <<"0", "5">> \o Fmt02d(Len(transaction_hash)) \o transaction_hash,
          <<"6", "3", "0", "4">>>>

\* IronPayAPI._generate_pix_code_simulation
IronSimulatedPixCode(amount, transaction_hash, pyhash) ==
    LET pix_code == Join(IronPixParts(amount, transaction_hash))
    IN  pix_code \o Fmt04d(pyhash % 10000)

\* the list pix_parts of gerar_codigo_pix_simulado; uuid_hex is uuid4().hex
PayBetsPixParts(valor, protocolo, uuid_hex) ==
    LET cents == Dec(valor)
    IN  <<<<"0", "0", "0", "2", "0", "1", "2", "6">>,
          <<"5", "8", "0", "0", "1", "4", "B", "R", ".", "G", "O", "V", ".", "B", "C", "B", ".", "P", "I", "X">>,
          <<"0", "1", "3", "6">> \o Take(uuid_hex, 32),
          <<"5", "2", "0", "4", "0", "0", "0", "0">>,
          <<"5", "3", "0", "3", "9", "8", "6">>,
          <<"5", "4">> \o Fmt02d(Len(cents)) \o cents,
          <<"5", "8", "0", "2", "B", "R">>,
          <<"5", "9">> \o Fmt02d(Len(<<"D", "E", "M", "O", "N", "S", "T", "R", "A", "C", "A", "O">>)) \o <<"D", "E", "M", "O", "N", "S", "T", "R", "A", "C", "A", "O">>,
          <<"6", "0", "0", "8", "B", "R", "A", "S", "I", "L", "I", "A">>,
          <<"6", "2">> \o Fmt02d(Len(protocolo) + 4)
              \o <<"0", "5">> \o Fmt02d(Len(protocolo)) \o protocolo,
          <<"6", "3", "0", "4">>>>

\* paybets_api.gerar_codigo_pix_simulado
gerar_codigo_pix_simulado(valor, protocolo, uuid_hex, pyhash) ==
    LET pix_code == Join(PayBetsPixParts(valor, protocolo, uuid_hex))
    IN  pix_code \o Fmt04d(pyhash % 10000)

IronCreate(data, env) ==
    IF Len(FilterDigits(data.cpf)) # CPF_DIGITS
    THEN Raise("ValueError", "CPF invalido", 0)
    ELSE IF env.failures > 0
    THEN Raise("Exception", "Iron Pay connection error", 1)
    ELSE IF env.code \notin {200, 201}
    THEN Raise("Exception", "Iron Pay API error", 1)
    ELSE IF ~env.body.json
    THEN Raise("ValueError", "invalid JSON", 1)
    ELSE LET transaction_hash ==
                 IF env.body.has_id THEN env.body.id ELSE <<"i", "r", "o", "n", "_">> \o env.uuid
             pix_code ==
                 IF env.body.pix # << >> THEN env.body.pix
                 ELSE IronSimulatedPixCode(data.amount, transaction_hash, env.pyhash)
         IN  Return([transaction_id |-> transaction_hash, pix_code |-> pix_code,
                     pix_qr_code |-> generate_qr_code_base64(pix_code, env.qr_ok),
                     status |-> IF env.body.status = "absent" THEN "pending"
                                ELSE env.body.status,
                     amount |-> data.amount], 1)

\* create_iron_pay_provider() followed by create_pix_payment(): the
\* constructor raises when no API token is configured
IronProviderCreate(data, env) ==
    IF ~env.token
    THEN Raise("ValueError", "IRONPAY_API_TOKEN e obrigatorio", 0)
    ELSE IronCreate(data, env)

NovaEraCreate(data, env) ==
    IF RequiredFieldsError(data) # ""
    THEN Raise("ValueError", RequiredFieldsError(data), 0)
    ELSE LET rq == make_request_with_retry(MAX_RETRIES, env.failures)
         IN  IF rq.raised
             THEN Raise("RequestException", "connection", rq.attempts)
             ELSE IF env.code \notin {200, 201}
             THEN Raise("RequestException", "API Error", rq.attempts)
             ELSE IF ~env.body.json
             THEN Raise("ValueError", "invalid JSON", rq.attempts)
             ELSE IF env.body.success # "true"
             THEN Raise("RequestException", "Nova Era Error", rq.attempts)
             ELSE Return([transaction_id |-> IF env.body.has_id THEN env.body.id ELSE << >>,
                          pix_code |-> env.body.pix,
                          pix_qr_code |-> IF env.body.pix # << >>
                                          THEN generate_qr_code_base64(env.body.pix, env.qr_ok)
                                          ELSE << >>,
                          status |-> IF env.body.status = "absent" THEN "waiting_payment"
                                     ELSE env.body.status,
                          amount |-> IF env.body.amount = -1 THEN 0 ELSE env.body.amount],
                         rq.attempts)

PayBetsCreate(data, env) ==
    IF RequiredFieldsError(data) # ""
    THEN Raise("ValueError", RequiredFieldsError(data), 0)
    ELSE LET rq == make_request_with_retry(MAX_RETRIES, env.failures)
         IN  IF rq.raised
             THEN Raise("RequestException", "connection", rq.attempts)
             ELSE IF env.code \notin {200, 201}
             THEN Raise("RequestException", "API Error", rq.attempts)
             ELSE IF ~env.body.json
             THEN Raise("ValueError", "invalid JSON", rq.attempts)
             ELSE Return([transaction_id |-> IF env.body.has_id THEN env.body.id ELSE << >>,
                          pix_code |-> env.body.pix,
                          pix_qr_code |-> generate_qr_code_base64(env.body.pix, env.qr_ok),
                          status |-> IF env.body.status = "absent" THEN "PENDING"
                                     ELSE env.body.status,
                          amount |-> IF env.body.amount = -1 THEN 0 ELSE env.body.amount],
                         rq.attempts)

\* ------------------------------------------------------------------------
\* check_payment_status of each provider client.  The dict it returns:
\* raised (an exception left the method), status, and the flags paid,
\* pending and failed, each "true", "false" or "absent" (key not in the dict)
\* ------------------------------------------------------------------------
Flag(b) == IF b THEN "true" ELSE "false"

StatusDict(status, paid, pending, failed) ==
    [raised |-> FALSE, status |-> status, paid |-> paid, pending |-> pending,
     failed |-> failed]

ZentraCheckStatus(transaction_id, env) ==
    LET rq == make_request_with_retry(MAX_RETRIES, env.failures)
        status == IF env.body.status = "absent" THEN "unknown" ELSE env.body.status
    IN  IF rq.raised
        THEN StatusDict("error", "absent", "absent", "absent")
        ELSE IF env.code = 404
        THEN StatusDict("not_found", "false", "false", "true")
        ELSE IF env.code # 200
        THEN StatusDict("error", "absent", "absent", "absent")
        ELSE IF ~env.body.json
        THEN StatusDict("error", "absent", "absent", "absent")
        ELSE StatusDict(status,
                        Flag(status \in {"paid", "completed", "approved"}),
                        Flag(status \in {"pending", "waiting_payment"}),
                        Flag(status \in {"failed", "expired", "cancelled", "refunded"}))

NovaEraCheckStatus(transaction_id, env) ==
    LET rq == make_request_with_retry(MAX_RETRIES, env.failures)
        status == IF env.body.status = "absent" THEN "unknown" ELSE env.body.status
    IN  IF rq.raised
        THEN StatusDict("error", "absent", "absent", "absent")
        ELSE IF env.code = 404
        THEN StatusDict("not_found", "false", "false", "true")
        ELSE IF env.code # 200
        THEN StatusDict("error", "absent", "absent", "absent")
        ELSE IF ~env.body.json
        THEN StatusDict("error", "absent", "absent", "absent")
        ELSE IF env.body.success # "true"
        THEN StatusDict("error", "absent", "absent", "absent")
        ELSE StatusDict(status,
                        Flag(status = "paid"),
                        Flag(status = "waiting_payment"),
                        Flag(status \in {"failed", "expired", "cancelled"}))

IronCheckStatus(transaction_hash, env) ==
    IF env.failures > 0
    THEN StatusDict("error", "false", "absent", "absent")
    ELSE IF env.code = 200
    THEN IF ~env.body.json
         THEN StatusDict("error", "false", "absent", "absent")
         ELSE StatusDict(IF env.body.status = "absent" THEN "pending" ELSE env.body.status,
                         Flag(env.body.status = "paid"), "absent", "absent")
    ELSE StatusDict("pending", "false", "absent", "absent")

PayBetsCheckStatus(transaction_id, env) ==
    StatusDict("pending", "false", "true", "false")

\* ------------------------------------------------------------------------
\* Local fallback provider (module brazilian_pix): EMV/BR-Code encoder and
\* an adapter that never calls the network
\* ------------------------------------------------------------------------
FALLBACK_PIX_KEY == <<"p", "i", "x", "@", "l", "o", "j", "a", ".", "c", "o", "m", ".", "b", "r">>

FALLBACK_MERCHANT_NAME == <<"R", "E", "C", "E", "I", "T", "A", " ", "D", "E", " ", "B", "O", "L", "O">>

FALLBACK_MERCHANT_CITY == <<"S", "A", "O", " ", "P", "A", "U", "L", "O">>

\* one field: 2-digit tag, 2-digit decimal length, value
TLV(tag, value) == tag \o Fmt02d(Len(value)) \o value

\* two decimal digits, '.' as decimal point, no thousands separator
FormatAmount(cents) == Dec(cents \div 100) \o <<".">> \o ZeroPad(Dec(cents % 100), 2)

BrCodeEncode(pix_key, merchant_name, merchant_city, cents, reference) ==
    LET body ==
            TLV(<<"0", "0">>, <<"0", "1">>) \o TLV(<<"0", "1">>, <<"1", "2">>)
            \o TLV(<<"2", "6">>, TLV(<<"0", "0">>, <<"b", "r", ".", "g", "o", "v", ".", "b", "c", "b", ".", "p", "i", "x">>) \o TLV(<<"0", "1">>, pix_key))
            \o TLV(<<"5", "2">>, <<"0", "0", "0", "0">>) \o TLV(<<"5", "3">>, <<"9", "8", "6">>)
            \o TLV(<<"5", "4">>, FormatAmount(cents)) \o TLV(<<"5", "8">>, <<"B", "R">>)
            \o TLV(<<"5", "9">>, merchant_name) \o TLV(<<"6", "0">>, merchant_city)
            \o TLV(<<"6", "2">>, TLV(<<"0", "5">>, Take(reference, 95)))
            \o <<"6", "3", "0", "4">>
    IN  body \o calculate_crc16_ccitt(body)

\* the identifier the fallback draws for request r
FallbackId(r) == <<"B", "R", "P", "I", "X", "-">> \o <<ReqChar(r)>>

\* the payloads of the identifiers above for the fixed amount, computed once
FallbackPixMemo ==
    [r \in Requests |-> BrCodeEncode(FALLBACK_PIX_KEY, FALLBACK_MERCHANT_NAME,
                                     FALLBACK_MERCHANT_CITY, AMOUNT_CENTS, FallbackId(r))]

\* BrCodeEncode with the fixed merchant identity
FallbackPixCode(cents, reference) ==
    IF cents = AMOUNT_CENTS /\ \E r \in Requests : FallbackId(r) = reference
    THEN FallbackPixMemo[CHOOSE r \in Requests : FallbackId(r) = reference]
    ELSE BrCodeEncode(FALLBACK_PIX_KEY, FALLBACK_MERCHANT_NAME,
                      FALLBACK_MERCHANT_CITY, cents, reference)

\* create_brazilian_pix_provider().create_pix_payment(amount, name, cpf, email):
\* `local_id` is the identifier the provider draws; `defect` is an exception
\* escaping the fallback path
BrazilianPixCreate(amount, name, cpf, email, env) ==
    IF env.defect
    THEN Raise("Exception", "fallback", 0)
    ELSE LET pix_code == FallbackPixCode(amount, env.local_id)
         IN  Return([transaction_id |-> env.local_id, pix_code |-> pix_code,
                     pix_qr_code |-> generate_qr_code_base64(pix_code, env.qr_ok),
                     status |-> "pending", amount |-> amount], 0)

\* ------------------------------------------------------------------------
\* What the network and the providers may do during one request
\* ------------------------------------------------------------------------
\* the identifier ZentraPay assigns: a new one for every payment
ZentraId(r) == <<"Z", "P", "-">> \o <<ReqChar(r)>>

\* the hash Iron Pay answers with: the same one when the order is repeated
IronId == <<"I", "P", "-", "1">>

ProviderPix == <<"0", "0", "0", "2", "0", "1", "0", "1", "0", "2", "1", "2", "2", "6", "5", "8", "0", "0", "1", "4", "b", "r", ".", "g", "o", "v", ".", "b", "c", "b", ".", "p", "i", "x", "0", "1", "3", "6", "p", "r", "o", "v", "i", "d", "e", "r", "-", "g", "e", "n", "e", "r", "a", "t", "e", "d", "-", "c", "o", "d", "e", "6", "3", "0", "4", "A", "B", "C", "D">>

OkBody(id) ==
    [json |-> TRUE, success |-> "true", has_id |-> TRUE, id |-> id,
     pix |-> ProviderPix, status |-> "absent", amount |-> -1]

BaseEnv(r) ==
    [failures |-> 0, code |-> 200, body |-> OkBody(<< >>), qr_ok |-> TRUE,
     token |-> TRUE, uuid |-> <<"0", "a", "1", "b", "2", "c", "3", "d", "4">> \o <<ReqChar(r)>>, pyhash |-> 7421,
     local_id |-> FallbackId(r), defect |-> FALSE]

ZentraEnvs(r) ==
    {[BaseEnv(r) EXCEPT !.body = OkBody(ZentraId(r))]}
    \cup {[BaseEnv(r) EXCEPT !.failures = MAX_RETRIES],
          [BaseEnv(r) EXCEPT !.code = 500],
          [BaseEnv(r) EXCEPT !.body.json = FALSE],
          [BaseEnv(r) EXCEPT !.body.success = "false"],
          [BaseEnv(r) EXCEPT !.body.has_id = FALSE],
          [BaseEnv(r) EXCEPT !.body = [OkBody(ZentraId(r)) EXCEPT !.pix = << >>]]}

IronEnvs(r) ==
    {[BaseEnv(r) EXCEPT !.body = OkBody(IronId)]}
    \cup {[BaseEnv(r) EXCEPT !.token = FALSE],
          [BaseEnv(r) EXCEPT !.failures = 1],
          [BaseEnv(r) EXCEPT !.code = 500],
          [BaseEnv(r) EXCEPT !.body.json = FALSE]}

\* the local provider computes on its own data: nothing outside it makes it
\* raise
LocalEnvs(r) == {BaseEnv(r)}

\* ------------------------------------------------------------------------
\* State
\* ------------------------------------------------------------------------
VARIABLES
    now,          \* datetime.now(), in minutes
    pix_cache,    \* the module-level dict: cache key -> entry
    pc,           \* where each request is in generate_pix
    input,        \* the JSON body of each request
    cached_pix,   \* local variable cached_pix of each request
    result,       \* the adapter response a request holds before storing it
    resp,         \* the HTTP response each request was answered with
    attempts,     \* adapters each request invoked, in order, with the outcome
    doneAtStart,  \* the requests already answered when a request arrived
    arrivedAt,    \* the time at which a request arrived (-1: not yet)
    adcall,       \* the last direct create_pix_payment call: adapter, data, outcome
    stcall,       \* the last direct check_payment_status call and its outcome
    paybets,      \* one PayBetsAPI instance: its token and its traffic
    gen,          \* the last payload a local generator produced, with its inputs
    rtcall,       \* the last call of _make_request_with_retry and its outcome
    epcall        \* the last call of a status endpoint and its answer

vars ==
    <<now, pix_cache, pc, input, cached_pix, result, resp, attempts,
      doneAtStart, arrivedAt, adcall, stcall, paybets, gen, rtcall, epcall>>

NoEntry ==
    [transaction_id |-> << >>, amount |-> 0, pix_code |-> << >>, provider |-> "",
     customer_name |-> "", created_at |-> -1]

NoError == [text |-> "", data |-> << >>]

NoResponse ==
    [success |-> FALSE, http |-> 0, transaction_id |-> << >>, order_id |-> << >>,
     amount |-> 0, pix_code |-> << >>, qr_code_image |-> << >>, status |-> "",
     provider |-> "", cached |-> "absent", error |-> NoError]

NoCall == [adapter |-> "", data |-> [name |-> "", email |-> "", cpf |-> << >>,
                                     phone |-> "", amount |-> 0],
           env |-> BaseEnv(1), res |-> Raise("", "", 0)]

NoStatusCall ==
    [adapter |-> "", transaction_id |-> << >>, env |-> BaseEnv(1),
     res |-> [raised |-> FALSE, status |-> "", paid |-> "absent", pending |-> "absent",
              failed |-> "absent"]]

NoPayBets == [constructed |-> FALSE, jwt_token |-> "", logins |-> 0, rejected |-> FALSE]

NoRetryCall ==
    [max_retries |-> 0, failures |-> 0, final |-> "", code |-> 0,
     res |-> [raised |-> FALSE, none |-> FALSE, attempts |-> 0]]

NoEndpointCall ==
    [endpoint |-> "", transaction_id |-> << >>, zentra |-> BaseEnv(1), iron |-> BaseEnv(1),
     answer |-> [http |-> 0, status |-> "", paid |-> FALSE, pending |-> FALSE,
                 failed |-> "absent", provider |-> ""]]

NoGen ==
    [generator |-> "", amount |-> 0, reference |-> << >>, uuid |-> << >>, pyhash |-> 0,
     parts |-> << >>, pix_code |-> << >>, crc_ok |-> "unchecked"]

\* cache_key = customer_cpf.replace('.', '').replace('-', '')
CacheKey(customer_cpf) == StripDotsDashes(customer_cpf)

\* CacheFresh with the comparison turned round
CacheFreshReversed(entry, t) == t - entry.created_at > CACHE_WINDOW_MINUTES

\* datetime.now() - cached_pix['created_at'] < timedelta(minutes=60)
CacheFresh(entry, t) == t - entry.created_at < CACHE_WINDOW_MINUTES

\* DictSet that keeps the entry a key already holds (dict.setdefault)
DictSetDefault(d, k, v) == [x \in DOMAIN d \cup {k} |-> IF x \in DOMAIN d THEN d[x] ELSE v]

\* pix_cache[cache_key] = {...}
DictSet(d, k, v) == [x \in DOMAIN d \cup {k} |-> IF x = k THEN v ELSE d[x]]

\* DictDel emptying the dict (pix_cache.clear())
DictClear(d, k) == << >>

\* del pix_cache[cache_key]
DictDel(d, k) == [x \in DOMAIN d \ {k} |-> d[x]]

\* the entry written after a remote adapter succeeded
CacheEntry(res, provider, customer_name, t) ==
    [transaction_id |-> res.transaction_id, amount |-> res.amount,
     pix_code |-> res.pix_code, provider |-> provider,
     customer_name |-> customer_name, created_at |-> t]

\* the 400 answer for a missing required field
MissingFieldResponse(field) ==
    [NoResponse EXCEPT !.http = 400,
                       !.error = [text |-> "Campo e obrigatorio: " \o field, data |-> << >>]]

\* the first of cpf, name, email that is missing ("" when none is)
MissingField(data) ==
    IF data.cpf = << >> THEN "cpf"
    ELSE IF data.name = "" THEN "name"
    ELSE IF data.email = "" THEN "email"
    ELSE ""

\* the answer served from the cache
CachedResponse(entry) ==
    [NoResponse EXCEPT !.success = TRUE, !.http = 200,
                       !.transaction_id = entry.transaction_id,
                       !.order_id = entry.transaction_id,
                       !.amount = entry.amount,
                       !.pix_code = entry.pix_code,
                       !.qr_code_image = entry.pix_code,
                       !.status = "pending",
                       !.provider = entry.provider,
                       !.cached = "true"]

\* the answer after ZentraPay or Iron Pay produced the payment
RemoteResponse(res, provider) ==
    [NoResponse EXCEPT !.success = TRUE, !.http = 200,
                       !.transaction_id = res.transaction_id,
                       !.order_id = res.transaction_id,
                       !.amount = res.amount,
                       !.pix_code = res.pix_code,
                       !.qr_code_image = res.pix_qr_code,
                       !.status = res.status,
                       !.provider = provider,
                       !.cached = "false"]

\* LocalResponse carrying the label of the Iron Pay branch it was copied from
LocalResponseIronLabel(backup_pix) == RemoteResponse(backup_pix, "Iron Pay (Fallback)")

\* the answer after the local fallback produced the payment
LocalResponse(backup_pix) ==
    [NoResponse EXCEPT !.success = TRUE, !.http = 200,
                       !.transaction_id = backup_pix.transaction_id,
                       !.order_id = backup_pix.transaction_id,
                       !.amount = backup_pix.amount,
                       !.pix_code = backup_pix.pix_code,
                       !.qr_code_image = backup_pix.pix_qr_code,
                       !.status = backup_pix.status,
                       !.provider = "Brazilian_PIX_Fallback"]

\* the 500 answer of the fallback's except clause
FallbackErrorResponse(msg) ==
    [NoResponse EXCEPT !.http = 500,
                       !.error = [text |-> "Erro ao gerar PIX: " \o msg, data |-> << >>]]

\* the 500 answer of the outermost except clause for a KeyError: str(e) is
\* the repr of the missing key
KeyErrorResponse(cache_key) ==
    [NoResponse EXCEPT !.http = 500,
                       !.error = [text |-> "KeyError", data |-> cache_key]]

\* the payment data generate_pix hands to the adapters
PaymentData(data) ==
    [name |-> data.name, email |-> data.email, cpf |-> data.cpf,
     phone |-> "(11) 98768-9080", amount |-> AMOUNT_CENTS]

\* AfterZentraFailed leaving Iron Pay out
AfterZentraFailedSkipsIron == "local"

\* where generate_pix goes when an adapter raised
AfterZentraFailed == "iron"

AfterIronFailed == "local"

\* ------------------------------------------------------------------------
\* Initial state: the process has just started, nothing is cached
\* ------------------------------------------------------------------------
Init ==
    /\ now = 0
    /\ pix_cache = << >>
    /\ pc = [r \in Requests |-> "idle"]
    /\ input = [r \in Requests |-> NoInput]
    /\ cached_pix = [r \in Requests |-> NoEntry]
    /\ result = [r \in Requests |-> NoResp]
    /\ resp = [r \in Requests |-> NoResponse]
    /\ attempts = [r \in Requests |-> << >>]
    /\ doneAtStart = [r \in Requests |-> {}]
    /\ arrivedAt = [r \in Requests |-> -1]
    /\ adcall = NoCall
    /\ stcall = NoStatusCall
    /\ paybets = NoPayBets
    /\ gen = NoGen
    /\ rtcall = NoRetryCall
    /\ epcall = NoEndpointCall

\* the request is answered: its locals die with it
Answer(r, response) ==
    /\ pc' = [pc EXCEPT ![r] = "done"]
    /\ resp' = [resp EXCEPT ![r] = response]
    /\ cached_pix' = [cached_pix EXCEPT ![r] = NoEntry]
    /\ result' = [result EXCEPT ![r] = NoResp]

\* ------------------------------------------------------------------------
\* generate_pix, one action per stretch between two points where another
\* request can run
\* ------------------------------------------------------------------------
\* the request arrives; the required fields are checked
Receive(r, data) ==
    /\ pc[r] = "idle"
    /\ \A q \in Requests : q < r => pc[q] # "idle"
    /\ Cardinality({q \in Requests : pc[q] \notin {"idle", "done"}}) < MaxThreads
    /\ input' = [input EXCEPT ![r] = data]
    /\ arrivedAt' = [arrivedAt EXCEPT ![r] = now]
    /\ doneAtStart' = [doneAtStart EXCEPT ![r] = {q \in Requests : pc[q] = "done"}]
    /\ IF MissingField(data) # ""
       THEN Answer(r, MissingFieldResponse(MissingField(data)))
       ELSE /\ pc' = [pc EXCEPT ![r] = "cache_test"]
            /\ UNCHANGED <<resp, cached_pix, result>>
    /\ UNCHANGED <<now, pix_cache, attempts, adcall, stcall, paybets, gen, rtcall, epcall>>

\* if cache_key in pix_cache
CacheTest(r) ==
    /\ pc[r] = "cache_test"
    /\ pc' = [pc EXCEPT ![r] = IF CacheKey(input[r].cpf) \in DOMAIN pix_cache
                               THEN "cache_read" ELSE "zentra"]
    /\ UNCHANGED <<now, pix_cache, input, cached_pix, result, resp, attempts,
                   doneAtStart, arrivedAt, adcall, stcall, paybets, gen, rtcall, epcall>>

\* cached_pix = pix_cache[cache_key]
CacheRead(r) ==
    /\ pc[r] = "cache_read"
    /\ IF CacheKey(input[r].cpf) \in DOMAIN pix_cache
       THEN /\ cached_pix' = [cached_pix EXCEPT ![r] = pix_cache[CacheKey(input[r].cpf)]]
            /\ pc' = [pc EXCEPT ![r] = "cache_check"]
            /\ UNCHANGED <<resp, result>>
       ELSE Answer(r, KeyErrorResponse(CacheKey(input[r].cpf)))
    /\ UNCHANGED <<now, pix_cache, input, attempts, doneAtStart, arrivedAt,
                   adcall, stcall, paybets, gen, rtcall, epcall>>

\* the expiry comparison: answer from the cache, or go on to delete
CacheCheck(r) ==
    /\ pc[r] = "cache_check"
    /\ IF CacheFresh(cached_pix[r], now)
       THEN Answer(r, CachedResponse(cached_pix[r]))
       ELSE /\ pc' = [pc EXCEPT ![r] = "cache_del"]
            /\ UNCHANGED <<resp, cached_pix, result>>
    /\ UNCHANGED <<now, pix_cache, input, attempts, doneAtStart, arrivedAt, adcall, stcall, paybets, gen, rtcall, epcall>>

\* del pix_cache[cache_key]
CacheDel(r) ==
    /\ pc[r] = "cache_del"
    /\ IF CacheKey(input[r].cpf) \in DOMAIN pix_cache
       THEN /\ pix_cache' = DictDel(pix_cache, CacheKey(input[r].cpf))
            /\ pc' = [pc EXCEPT ![r] = "zentra"]
            /\ cached_pix' = [cached_pix EXCEPT ![r] = NoEntry]
            /\ UNCHANGED <<resp, result>>
       ELSE /\ Answer(r, KeyErrorResponse(CacheKey(input[r].cpf)))
            /\ UNCHANGED pix_cache
    /\ UNCHANGED <<now, input, attempts, doneAtStart, arrivedAt, adcall, stcall, paybets, gen, rtcall, epcall>>

\* TryZentra behind a per-key lock: it waits while another request for the
\* same key holds a payment it has not answered with yet
TryZentraExclusive(r, env) ==
    /\ pc[r] = "zentra"
    /\ \A q \in Requests \ {r} :
           ~(/\ CacheKey(input[q].cpf) = CacheKey(input[r].cpf)
             /\ pc[q] \in {"zentra_store", "iron", "iron_store", "local"})
    /\ LET res == ZentraCreate(PaymentData(input[r]), env)
       IN  /\ attempts' = [attempts EXCEPT
                  ![r] = Append(@, [provider |-> "ZentraPay", ok |-> res.ok])]
           /\ IF res.ok
              THEN /\ result' = [result EXCEPT ![r] = res.resp]
                   /\ pc' = [pc EXCEPT ![r] = "zentra_store"]
              ELSE /\ pc' = [pc EXCEPT ![r] = AfterZentraFailed]
                   /\ UNCHANGED result
    /\ UNCHANGED <<now, pix_cache, input, cached_pix, resp, doneAtStart,
                   arrivedAt, adcall, stcall, paybets, gen, rtcall, epcall>>

\* zentrapay_api.create_pix_payment(payment_data)
TryZentra(r, env) ==
    /\ pc[r] = "zentra"
    /\ LET res == ZentraCreate(PaymentData(input[r]), env)
       IN  /\ attempts' = [attempts EXCEPT
                  ![r] = Append(@, [provider |-> "ZentraPay", ok |-> res.ok])]
           /\ IF res.ok
              THEN /\ result' = [result EXCEPT ![r] = res.resp]
                   /\ pc' = [pc EXCEPT ![r] = "zentra_store"]
              ELSE /\ pc' = [pc EXCEPT ![r] = AfterZentraFailed]
                   /\ UNCHANGED result
    /\ UNCHANGED <<now, pix_cache, input, cached_pix, resp, doneAtStart,
                   arrivedAt, adcall, stcall, paybets, gen, rtcall, epcall>>

\* the cache write and the answer after ZentraPay succeeded
StoreZentra(r) ==
    /\ pc[r] = "zentra_store"
    /\ pix_cache' = DictSet(pix_cache, CacheKey(input[r].cpf),
                            CacheEntry(result[r], "ZentraPay", input[r].name, now))
    /\ Answer(r, RemoteResponse(result[r], "ZentraPay"))
    /\ UNCHANGED <<now, input, attempts, doneAtStart, arrivedAt, adcall, stcall, paybets, gen, rtcall, epcall>>

\* create_iron_pay_provider().create_pix_payment(payment_data)
TryIron(r, env) ==
    /\ pc[r] = "iron"
    /\ LET res == IronProviderCreate(PaymentData(input[r]), env)
       IN  /\ attempts' = [attempts EXCEPT
                  ![r] = Append(@, [provider |-> "Iron Pay", ok |-> res.ok])]
           /\ IF res.ok
              THEN /\ result' = [result EXCEPT ![r] = res.resp]
                   /\ pc' = [pc EXCEPT ![r] = "iron_store"]
              ELSE /\ pc' = [pc EXCEPT ![r] = AfterIronFailed]
                   /\ UNCHANGED result
    /\ UNCHANGED <<now, pix_cache, input, cached_pix, resp, doneAtStart,
                   arrivedAt, adcall, stcall, paybets, gen, rtcall, epcall>>

\* the cache write and the answer after Iron Pay succeeded
StoreIron(r) ==
    /\ pc[r] = "iron_store"
    /\ pix_cache' = DictSet(pix_cache, CacheKey(input[r].cpf),
                            CacheEntry(result[r], "Iron Pay (Fallback)", input[r].name, now))
    /\ Answer(r, RemoteResponse(result[r], "Iron Pay (Fallback)"))
    /\ UNCHANGED <<now, input, attempts, doneAtStart, arrivedAt, adcall, stcall, paybets, gen, rtcall, epcall>>

\* the local fallback and its answer; nothing is written to the cache
TryLocal(r, env) ==
    /\ pc[r] = "local"
    /\ LET res == BrazilianPixCreate(AMOUNT_CENTS, input[r].name, input[r].cpf,
                                     input[r].email, env)
       IN  /\ attempts' = [attempts EXCEPT
                  ![r] = Append(@, [provider |-> "Brazilian_PIX_Fallback",
                                    ok |-> res.ok])]
           /\ IF res.ok
              THEN Answer(r, LocalResponse(res.resp))
              ELSE Answer(r, FallbackErrorResponse(res.msg))
    /\ UNCHANGED <<now, pix_cache, input, doneAtStart, arrivedAt, adcall, stcall, paybets, gen, rtcall, epcall>>

\* time passes.  A clock step is far longer than a request can last (every
\* network call carries a timeout of seconds), so it falls between requests
Tick ==
    /\ now + TickStep <= MaxTime
    /\ \A r \in Requests : pc[r] \in {"idle", "done"}
    /\ now' = now + TickStep
    /\ UNCHANGED <<pix_cache, pc, input, cached_pix, result, resp, attempts,
                   doneAtStart, arrivedAt, adcall, stcall, paybets, gen, rtcall, epcall>>

Next ==
    \/ \E r \in Requests, data \in Inputs : Receive(r, data)
    \/ \E r \in Requests : CacheTest(r)
    \/ \E r \in Requests : CacheRead(r)
    \/ \E r \in Requests : CacheCheck(r)
    \/ \E r \in Requests : CacheDel(r)
    \/ \E r \in Requests : \E env \in ZentraEnvs(r) : TryZentra(r, env)
    \/ \E r \in Requests : StoreZentra(r)
    \/ \E r \in Requests : \E env \in IronEnvs(r) : TryIron(r, env)
    \/ \E r \in Requests : StoreIron(r)
    \/ \E r \in Requests : \E env \in LocalEnvs(r) : TryLocal(r, env)
    \/ Tick

Spec == Init /\ [][Next]_vars

\* ------------------------------------------------------------------------
\* The adapters called on their own: create_pix_payment of each provider
\* client, on any payment data
\* ------------------------------------------------------------------------
AmountInputs == {-100, 0, AMOUNT_CENTS}

AdapterInputs ==
    {[name |-> n, email |-> e, cpf |-> c, phone |-> "(11) 98768-9080", amount |-> a] :
        n \in NameInputs, e \in EmailInputs, c \in CpfInputs, a \in AmountInputs}

AdapterEnvs ==
    {[BaseEnv(1) EXCEPT !.body = OkBody(ZentraId(1))],
     [BaseEnv(1) EXCEPT !.body = [OkBody(ZentraId(1)) EXCEPT !.status = "PAID"]],
     [BaseEnv(1) EXCEPT !.body = [OkBody(ZentraId(1)) EXCEPT !.has_id = FALSE]],
     [BaseEnv(1) EXCEPT !.body = [OkBody(ZentraId(1)) EXCEPT !.pix = << >>]],
     [BaseEnv(1) EXCEPT !.body = OkBody(ZentraId(1)), !.qr_ok = FALSE],
     [BaseEnv(1) EXCEPT !.failures = MAX_RETRIES],
     [BaseEnv(1) EXCEPT !.code = 500]}

\* what a provider can answer to a status query: connection failures, HTTP
\* code, a body that parses or not, its success flag and its status string
StatusStrings ==
    {"absent", "pending", "paid", "PAID", "waiting_payment", "completed", "refunded"}

StatusEnvs ==
    {[BaseEnv(1) EXCEPT !.failures = f, !.code = c,
                        !.body = [OkBody(ZentraId(1)) EXCEPT !.json = j, !.success = s,
                                                             !.status = st]] :
        f \in {0, MAX_RETRIES}, c \in {200, 404, 500}, j \in BOOLEAN,
        s \in {"true", "false"}, st \in StatusStrings}

\* the variables of generate_pix, which a direct adapter call leaves alone
reqvars ==
    <<now, pix_cache, pc, input, cached_pix, result, resp, attempts,
      doneAtStart, arrivedAt>>

CallZentra(data, env) ==
    /\ adcall' = [adapter |-> "ZentraPay", data |-> data, env |-> env,
                  res |-> ZentraCreate(data, env)]
    /\ stcall' = NoStatusCall
    /\ UNCHANGED <<reqvars, paybets, gen, rtcall, epcall>>

CallIron(data, env) ==
    /\ adcall' = [adapter |-> "Iron Pay", data |-> data, env |-> env,
                  res |-> IronCreate(data, env)]
    /\ stcall' = NoStatusCall
    /\ UNCHANGED <<reqvars, paybets, gen, rtcall, epcall>>

CallNovaEra(data, env) ==
    /\ adcall' = [adapter |-> "Nova Era", data |-> data, env |-> env,
                  res |-> NovaEraCreate(data, env)]
    /\ stcall' = NoStatusCall
    /\ UNCHANGED <<reqvars, paybets, gen, rtcall, epcall>>

CallPayBets(data, env) ==
    /\ adcall' = [adapter |-> "PayBets", data |-> data, env |-> env,
                  res |-> PayBetsCreate(data, env)]
    /\ stcall' = NoStatusCall
    /\ UNCHANGED <<reqvars, paybets, gen, rtcall, epcall>>

StatusZentra(transaction_id, env) ==
    /\ stcall' = [adapter |-> "ZentraPay", transaction_id |-> transaction_id, env |-> env,
                  res |-> ZentraCheckStatus(transaction_id, env)]
    /\ adcall' = NoCall
    /\ UNCHANGED <<reqvars, paybets, gen, rtcall, epcall>>

StatusIron(transaction_hash, env) ==
    /\ stcall' = [adapter |-> "Iron Pay", transaction_id |-> transaction_hash, env |-> env,
                  res |-> IronCheckStatus(transaction_hash, env)]
    /\ adcall' = NoCall
    /\ UNCHANGED <<reqvars, paybets, gen, rtcall, epcall>>

StatusNovaEra(transaction_id, env) ==
    /\ stcall' = [adapter |-> "Nova Era", transaction_id |-> transaction_id, env |-> env,
                  res |-> NovaEraCheckStatus(transaction_id, env)]
    /\ adcall' = NoCall
    /\ UNCHANGED <<reqvars, paybets, gen, rtcall, epcall>>

StatusPayBets(transaction_id, env) ==
    /\ stcall' = [adapter |-> "PayBets", transaction_id |-> transaction_id, env |-> env,
                  res |-> PayBetsCheckStatus(transaction_id, env)]
    /\ adcall' = NoCall
    /\ UNCHANGED <<reqvars, paybets, gen, rtcall, epcall>>

NextAdapters ==
    \/ \E data \in AdapterInputs, env \in AdapterEnvs : CallZentra(data, env)
    \/ \E data \in AdapterInputs, env \in AdapterEnvs : CallIron(data, env)
    \/ \E data \in AdapterInputs, env \in AdapterEnvs : CallNovaEra(data, env)
    \/ \E data \in AdapterInputs, env \in AdapterEnvs : CallPayBets(data, env)
    \/ \E env \in StatusEnvs : StatusZentra(ZentraId(1), env)
    \/ \E env \in StatusEnvs : StatusIron(IronId, env)
    \/ \E env \in StatusEnvs : StatusNovaEra(ZentraId(1), env)
    \/ \E env \in StatusEnvs : StatusPayBets(ZentraId(1), env)

SpecAdapters == Init /\ [][NextAdapters]_vars


\* ------------------------------------------------------------------------
\* Properties of the failover chain
\* ------------------------------------------------------------------------
\* the order in which generate_pix turns to the providers
ChainOrder == <<"ZentraPay", "Iron Pay", "Brazilian_PIX_Fallback">>

\* name and e-mail are given and the CPF holds exactly 11 digits
ValidInput(data) ==
    /\ data.name # ""
    /\ data.email # ""
    /\ Len(FilterDigits(data.cpf)) = CPF_DIGITS

\* C1: within one request the providers are invoked in the order ZentraPay,
\* Iron Pay, local fallback, each at most once; a provider is invoked only
\* after the one before it failed, and none is invoked after a success.
C1_FixedOrder ==
    \A r \in Requests :
        LET a == attempts[r]
        IN  /\ Len(a) <= Len(ChainOrder)
            /\ \A i \in 1..Len(a) :
                   /\ a[i].provider = ChainOrder[i]
                   /\ i < Len(a) => ~a[i].ok
            /\ pc[r] \in {"cache_test", "cache_read", "cache_check", "cache_del", "zentra"}
                   => a = << >>
            /\ pc[r] = "iron" => Len(a) = 1 /\ ~a[1].ok
            /\ pc[r] = "local" => Len(a) = 2 /\ ~a[2].ok
            /\ pc[r] = "zentra_store" => Len(a) = 1 /\ a[1].ok
            /\ pc[r] = "iron_store" => Len(a) = 2 /\ a[2].ok

\* one request was ended by Iron Pay after ZentraPay failed, another went
\* through all three providers
C1_Witness ==
    /\ \E r \in Requests :
           pc[r] = "done" /\ Len(attempts[r]) = 2 /\ attempts[r][2].ok
    /\ \E r \in Requests :
           pc[r] = "done" /\ Len(attempts[r]) = 3 /\ attempts[r][3].ok

\* both remote adapters were invoked by request r and both failed
RemotesFailed(r) ==
    /\ Len(attempts[r]) >= 2
    /\ ~attempts[r][1].ok
    /\ ~attempts[r][2].ok

\* C2: a request with valid name, e-mail and 11-digit CPF for which ZentraPay
\* and Iron Pay both failed ends in success: the answer names the local
\* fallback as provider, has status "pending", a non-empty transaction id
\* and a payload of 50 to 512 characters that starts with 00020101.
C2_FallbackSucceeds ==
    \A r \in Requests :
        (pc[r] = "done" /\ ValidInput(input[r]) /\ RemotesFailed(r)) =>
            /\ resp[r].success
            /\ resp[r].http = 200
            /\ resp[r].provider = "Brazilian_PIX_Fallback"
            /\ resp[r].status = "pending"
            /\ resp[r].transaction_id # << >>
            /\ Len(resp[r].pix_code) >= 50
            /\ Len(resp[r].pix_code) <= 512
            /\ StartsWith(resp[r].pix_code, <<"0", "0", "0", "2", "0", "1", "0", "1">>)

\* a valid request was answered by the local fallback after ZentraPay could
\* not be reached and Iron Pay answered with HTTP 500
C2_Witness ==
    \E r \in Requests :
        /\ pc[r] = "done"
        /\ ValidInput(input[r])
        /\ RemotesFailed(r)
        /\ Len(attempts[r]) = 3
        /\ resp[r].provider = "Brazilian_PIX_Fallback"
        /\ resp[r].transaction_id = FallbackId(r)

\* C3: a failure of a remote adapter is never surfaced: a request with valid
\* input ends in an error answer only when the local fallback itself threw,
\* and that answer is a 5xx.
C3_OnlyFallbackFailureSurfaces ==
    \A r \in Requests :
        (pc[r] = "done" /\ ValidInput(input[r]) /\ ~resp[r].success) =>
            /\ Len(attempts[r]) = 3
            /\ ~attempts[r][3].ok
            /\ resp[r].http >= 500

\* C4: a request whose CPF does not hold exactly 11 digits is rejected with a
\* 4xx before any adapter is invoked, and never ends in success.
C4_InvalidCpfRejected ==
    \A r \in Requests :
        (arrivedAt[r] # -1 /\ Len(FilterDigits(input[r].cpf)) # CPF_DIGITS) =>
            /\ attempts[r] = << >>
            /\ pc[r] = "done" =>
                   /\ ~resp[r].success
                   /\ resp[r].http \in 400..499

\* C5: create_pix_payment of every adapter raises a validation error with no
\* HTTP request sent when the CPF does not reduce to exactly 11 digits, and
\* that of ZentraPay, Nova Era and PayBets also when name, e-mail, CPF or
\* amount is missing or the amount is not positive.
C5_ValidationBeforeHttp ==
    LET d == adcall.data
        bad_cpf == Len(FilterDigits(d.cpf)) # CPF_DIGITS
        bad_fields == d.name = "" \/ d.email = "" \/ d.cpf = << >> \/ d.amount <= 0
    IN  (adcall.adapter # "" /\ (bad_cpf \/ (adcall.adapter # "Iron Pay" /\ bad_fields))) =>
            /\ ~adcall.res.ok
            /\ adcall.res.exc = "ValueError"
            /\ adcall.res.sent = 0

\* PayBets was called with name, e-mail and a positive amount but the CPF
\* "123", and raised before sending anything
C5_Witness ==
    /\ adcall.adapter = "PayBets"
    /\ adcall.data.cpf = CpfShort
    /\ adcall.data.name # ""
    /\ adcall.data.email # ""
    /\ adcall.data.amount > 0
    /\ ~adcall.res.ok
    /\ adcall.res.sent = 0


\* ------------------------------------------------------------------------
\* Properties of the cache
\* ------------------------------------------------------------------------
\* the key under which request r reads and writes the cache
KeyOf(r) == CacheKey(input[r].cpf)

\* request r takes a step of generate_pix
Stepped(r) == pc'[r] # pc[r]

\* C6: the lookup answers with the stored entry exactly when an entry exists
\* and now - created_at < 60 minutes; an entry of age 60 minutes or more is
\* expired: it is deleted and the request goes on as a miss.
C6_LookupByAge ==
    [][\A r \in Requests :
        /\ (pc[r] = "cache_test" /\ Stepped(r)) =>
               /\ pix_cache' = pix_cache
               /\ pc'[r] = IF KeyOf(r) \in DOMAIN pix_cache THEN "cache_read" ELSE "zentra"
        /\ (pc[r] = "cache_read" /\ Stepped(r)) =>
               /\ pc'[r] = "cache_check"
               /\ KeyOf(r) \in DOMAIN pix_cache
               /\ cached_pix'[r] = pix_cache[KeyOf(r)]
        /\ (pc[r] = "cache_check" /\ Stepped(r)) =>
               IF now - cached_pix[r].created_at < CACHE_WINDOW_MINUTES
               THEN /\ pc'[r] = "done"
                    /\ pix_cache' = pix_cache
                    /\ resp'[r].success
                    /\ resp'[r].cached = "true"
                    /\ resp'[r].transaction_id = cached_pix[r].transaction_id
                    /\ resp'[r].pix_code = cached_pix[r].pix_code
               ELSE pc'[r] = "cache_del"
        /\ (pc[r] = "cache_del" /\ Stepped(r)) =>
               /\ pc'[r] = "zentra"
               /\ KeyOf(r) \notin DOMAIN pix_cache'
        /\ (Stepped(r) /\ resp'[r].cached = "true") =>
               /\ pc[r] = "cache_check"
               /\ now - cached_pix[r].created_at < CACHE_WINDOW_MINUTES
      ]_vars

\* request q went as far as the cache while request r was being handled
Overlap(q, r) ==
    /\ q # r
    /\ arrivedAt[q] # -1
    /\ arrivedAt[r] # -1
    /\ MissingField(input[q]) = ""
    /\ q \notin doneAtStart[r]
    /\ r \notin doneAtStart[q]

\* r1 was answered with a payment a remote adapter produced, r2 arrived after
\* that answer and less than 60 minutes after r1 with cpf, name and e-mail
\* given, and no third request for the same key ran at the same time as r1
SequentialPair(r1, r2) ==
    /\ r1 # r2
    /\ r1 \in doneAtStart[r2]
    /\ MissingField(input[r2]) = ""
    /\ resp[r1].success
    /\ resp[r1].cached = "false"
    /\ resp[r1].provider \in {"ZentraPay", "Iron Pay (Fallback)"}
    /\ arrivedAt[r2] - arrivedAt[r1] < CACHE_WINDOW_MINUTES
    /\ \A q \in Requests \ {r1, r2} : ~(Overlap(q, r1) /\ KeyOf(q) = KeyOf(r1))

\* C7: of two calls with the same tax id, one after the other and less than
\* 60 minutes apart, the first answered through a remote adapter, the second
\* invokes no adapter and returns the transaction id of the first.
C7_SecondCallServedFromCache ==
    \A r1 \in Requests, r2 \in Requests :
        (SequentialPair(r1, r2) /\ input[r2].cpf = input[r1].cpf) =>
            /\ attempts[r2] = << >>
            /\ pc[r2] = "done" =>
                   /\ resp[r2].success
                   /\ resp[r2].cached = "true"
                   /\ resp[r2].transaction_id = resp[r1].transaction_id

\* the second call came 30 minutes after the first and was answered with the
\* first one's ZentraPay transaction
C7_Witness ==
    \E r1 \in Requests, r2 \in Requests :
        /\ SequentialPair(r1, r2)
        /\ input[r2].cpf = input[r1].cpf
        /\ arrivedAt[r2] > arrivedAt[r1]
        /\ pc[r2] = "done"
        /\ resp[r1].provider = "ZentraPay"
        /\ resp[r2].cached = "true"
        /\ resp[r2].transaction_id = ZentraId(r1)

\* C8: every newly produced successful result, whichever adapter produced it,
\* is in the cache under the request's key when the answer is returned.
C8_NewResultStored ==
    [][\A r \in Requests :
        (Stepped(r) /\ pc'[r] = "done" /\ resp'[r].success /\ resp'[r].cached # "true") =>
            /\ KeyOf(r) \in DOMAIN pix_cache'
            /\ pix_cache'[KeyOf(r)].transaction_id = resp'[r].transaction_id
      ]_vars

\* C9: the cache key is the tax id with every non-digit removed, so that a
\* call whose tax id holds the same digits as that of an earlier call is
\* served from the earlier call's entry.
C9_KeyIsTheDigits ==
    /\ \A k \in DOMAIN pix_cache : k = FilterDigits(k)
    /\ \A r1 \in Requests, r2 \in Requests :
           (/\ SequentialPair(r1, r2)
            /\ FilterDigits(input[r2].cpf) = FilterDigits(input[r1].cpf)) =>
               attempts[r2] = << >>

\* C10: a store writes the entry of its key whatever the key held before,
\* with the current time as creation time, and leaves every other key alone;
\* a store of what the key already holds changes nothing, and the read that
\* follows takes the entry as it is stored.
C10_StoreOverwrites ==
    [][\A r \in Requests :
        /\ (pc[r] \in {"zentra_store", "iron_store"} /\ Stepped(r)) =>
               /\ DOMAIN pix_cache' = DOMAIN pix_cache \cup {KeyOf(r)}
               /\ pix_cache'[KeyOf(r)] =
                      [transaction_id |-> result[r].transaction_id,
                       amount |-> result[r].amount,
                       pix_code |-> result[r].pix_code,
                       provider |-> resp'[r].provider,
                       customer_name |-> input[r].name,
                       created_at |-> now]
               /\ \A k \in DOMAIN pix_cache \ {KeyOf(r)} : pix_cache'[k] = pix_cache[k]
               /\ resp'[r].transaction_id = result[r].transaction_id
        /\ (pc[r] = "cache_read" /\ pc'[r] = "cache_check") =>
               cached_pix'[r] = pix_cache[KeyOf(r)]
      ]_vars

\* two requests stored the same Iron Pay result under the same key, the key
\* holds that result once, and a third request was answered with it
C10_Witness ==
    \E r1 \in Requests, r2 \in Requests, r3 \in Requests :
        /\ r1 # r2 /\ r3 \notin {r1, r2}
        /\ pc[r1] = "done" /\ pc[r2] = "done" /\ pc[r3] = "done"
        /\ KeyOf(r1) = KeyOf(r2) /\ KeyOf(r3) = KeyOf(r1)
        /\ resp[r1].provider = "Iron Pay (Fallback)" /\ resp[r1].cached = "false"
        /\ resp[r2].provider = "Iron Pay (Fallback)" /\ resp[r2].cached = "false"
        /\ resp[r1].transaction_id = resp[r2].transaction_id
        /\ KeyOf(r1) \in DOMAIN pix_cache
        /\ pix_cache[KeyOf(r1)].transaction_id = resp[r1].transaction_id
        /\ resp[r3].cached = "true"
        /\ resp[r3].transaction_id = resp[r1].transaction_id


\* ------------------------------------------------------------------------
\* Properties of concurrent requests
\* ------------------------------------------------------------------------
\* C11: under every interleaving of concurrent requests for the same tax id
\* the cache steps never fail: no request is answered with the error of a
\* failed cache access, and after a write the key holds the writer's entry.
C11_CacheStepsNeverFail ==
    [][\A r \in Requests :
        /\ resp'[r].error.text # "KeyError"
        /\ (pc[r] \in {"zentra_store", "iron_store"} /\ Stepped(r)) =>
               /\ KeyOf(r) \in DOMAIN pix_cache'
               /\ pix_cache'[KeyOf(r)].transaction_id = result[r].transaction_id
      ]_vars

\* C12: requests for the same tax id do not exclude one another at the
\* provider call: a request that missed the cache can call ZentraPay
\* whatever the other requests for its key are doing.
C12_NoMutualExclusion ==
    \A r \in Requests :
        pc[r] = "zentra" => \E env \in ZentraEnvs(r) : ENABLED TryZentra(r, env)

\* two requests for the same key both missed the cache and hold two
\* different ZentraPay transactions while the key is still not cached
C12_Witness ==
    \E r1 \in Requests, r2 \in Requests :
        /\ r1 # r2
        /\ KeyOf(r1) = KeyOf(r2)
        /\ pc[r1] = "zentra_store"
        /\ pc[r2] = "zentra_store"
        /\ result[r1].transaction_id # << >>
        /\ result[r2].transaction_id # << >>
        /\ result[r1].transaction_id # result[r2].transaction_id
        /\ KeyOf(r1) \notin DOMAIN pix_cache


\* C13: the text of every error answer of generate_pix is a fixed message:
\* it carries nothing taken from the name, CPF or e-mail of the request, so
\* two requests that fail at the same point get the same text.
C13_ErrorTextIsGeneric ==
    /\ \A r \in Requests :
           (pc[r] = "done" /\ ~resp[r].success) => resp[r].error.data = << >>
    /\ \A r1 \in Requests, r2 \in Requests :
           (/\ pc[r1] = "done" /\ pc[r2] = "done"
            /\ ~resp[r1].success /\ ~resp[r2].success
            /\ resp[r1].http = resp[r2].http
            /\ resp[r1].error.text = resp[r2].error.text) =>
               resp[r1].error = resp[r2].error

\* ------------------------------------------------------------------------
\* Properties of the provider clients' results
\* ------------------------------------------------------------------------
NormalisedStatuses == {"pending", "paid", "failed", "expired", "cancelled", "unknown"}

\* C14: the status of every result an adapter returns, from
\* create_pix_payment or from check_payment_status, is one of pending, paid,
\* failed, expired, cancelled, unknown, whatever the provider sent
C14_StatusNormalised ==
    /\ adcall.res.ok => adcall.res.resp.status \in NormalisedStatuses
    /\ (stcall.adapter # "" /\ ~stcall.res.raised) =>
           stcall.res.status \in NormalisedStatuses

\* the status query met a network error or timeout, a code other than 200
\* and 404, or a body that does not parse
StatusQueryFailed(call) ==
    \/ call.env.failures > 0
    \/ call.env.code \notin {200, 404}
    \/ (call.env.code = 200 /\ ~call.env.body.json)

\* C15: when the status query fails (network, timeout, non-200 other than
\* not-found, unparsable body) check_payment_status raises nothing and
\* returns status pending or unknown with the paid flag false
C15_StatusFailureIsQuiet ==
    (stcall.adapter # "" /\ StatusQueryFailed(stcall)) =>
        /\ ~stcall.res.raised
        /\ stcall.res.status \in {"pending", "unknown"}
        /\ stcall.res.paid = "false"

\* C17: a result returned by create_pix_payment has a transaction id and a
\* PIX payload, neither empty
C17_ResultIsComplete ==
    adcall.res.ok =>
        /\ adcall.res.resp.transaction_id # << >>
        /\ adcall.res.resp.pix_code # << >>

\* ------------------------------------------------------------------------
\* One PayBetsAPI instance over its life: the constructor authenticates,
\* then create_pix_payment is called any number of times
\* ------------------------------------------------------------------------
PAYBETS_JWT == "jwt-1"

\* what the provider answers to the login request, and to a deposit request
PayBetsAuthEnvs ==
    {[BaseEnv(1) EXCEPT !.failures = f, !.code = c] :
        f \in {0, MAX_RETRIES}, c \in {200, 401}}

PayBetsPayEnvs ==
    {[BaseEnv(1) EXCEPT !.failures = f, !.code = c, !.body = OkBody(ZentraId(1))] :
        f \in {0, MAX_RETRIES}, c \in {201, 401, 500}}

\* PayBetsAPI._authenticate: one credential exchange; the token is kept only
\* when the login is answered 200
PayBetsAuthenticate(inst, env) ==
    LET rq == make_request_with_retry(MAX_RETRIES, env.failures)
        ok == ~rq.raised /\ env.code = 200
    IN  [inst EXCEPT !.logins = inst.logins + 1,
                     !.jwt_token = IF ok THEN PAYBETS_JWT ELSE inst.jwt_token]

\* PayBetsAPI.__init__
PayBetsNew(env) ==
    /\ ~paybets.constructed
    /\ paybets' = PayBetsAuthenticate([NoPayBets EXCEPT !.constructed = TRUE], env)
    /\ UNCHANGED <<reqvars, adcall, stcall, gen, rtcall, epcall>>

\* PayBetsAPI.create_pix_payment on the instance
PayBetsPay(data, env) ==
    LET res == PayBetsCreate(data, env)
        answered == res.sent > 0 /\ env.failures < MAX_RETRIES
    IN  /\ paybets.constructed
        /\ adcall' = [adapter |-> "PayBets", data |-> data, env |-> env,
                  res |-> res]
        /\ paybets' = [paybets EXCEPT !.rejected = answered /\ env.code = 401]
        /\ UNCHANGED <<reqvars, stcall, gen, rtcall, epcall>>

NextPayBets ==
    \/ \E env \in PayBetsAuthEnvs : PayBetsNew(env)
    \/ \E data \in AdapterInputs, env \in PayBetsPayEnvs : PayBetsPay(data, env)

SpecPayBets == Init /\ [][NextPayBets]_vars

\* C16: the credential exchange happens once per PayBets instance and the
\* token is reused by the calls; after a call was rejected with HTTP 401 the
\* next call that reaches the provider authenticates afresh
C16_ReauthAfter401 ==
    [][(paybets.constructed /\ adcall'.adapter = "PayBets" /\ adcall'.res.sent > 0) =>
           IF paybets.rejected
           THEN paybets'.logins = paybets.logins + 1
           ELSE paybets'.logins = paybets.logins /\ paybets'.jwt_token = paybets.jwt_token
      ]_vars

\* ------------------------------------------------------------------------
\* The validators of a PIX payload (validate_pix, simple_pix_validator)
\* ------------------------------------------------------------------------
\* c.lower() of one ASCII character
LowerChar(c) ==
    IF Ascii(c) >= 65 /\ Ascii(c) <= 90 THEN AsciiTable[Ascii(c) + 32 - 31] ELSE c

\* s.lower()
Lower(s) == [i \in 1..Len(s) |-> LowerChar(s[i])]

\* sub in s
Contains(s, sub) ==
    \E i \in 1..(Len(s) - Len(sub) + 1) : SubSeq(s, i, i + Len(sub) - 1) = sub

\* s[a:b] for 0 <= a
Slice(s, a, b) == SubSeq(s, a + 1, Min(b, Len(s)))

\* int(s) of a two-character string accepts two digits, or one digit with a
\* sign before it or with white space on either side
IsInt2(s) ==
    /\ Len(s) = 2
    /\ \/ IsDigit(s[1]) /\ IsDigit(s[2])
       \/ s[1] \in {" ", "+", "-"} /\ IsDigit(s[2])
       \/ IsDigit(s[1]) /\ s[2] = " "

DigitValue(c) == CHOOSE d \in 0..9 : DigitChar(d) = c

Int2(s) ==
    IF IsDigit(s[1]) /\ IsDigit(s[2]) THEN (10 * DigitValue(s[1])) + DigitValue(s[2])
    ELSE IF IsDigit(s[1]) THEN DigitValue(s[1])
    ELSE IF s[1] = "-" THEN 0 - DigitValue(s[2])
    ELSE DigitValue(s[2])

\* fields[tag] = {...}: a dict keeps the place of a key that is set again
FieldsPut(fields, tag, length, value) ==
    IF \E i \in 1..Len(fields) : fields[i].tag = tag
    THEN [i \in 1..Len(fields) |->
             IF fields[i].tag = tag
             THEN [tag |-> tag, length |-> length, value |-> value]
             ELSE fields[i]]
    ELSE Append(fields, [tag |-> tag, length |-> length, value |-> value])

HasField(fields, tag) == \E i \in 1..Len(fields) : fields[i].tag = tag

\* fields.get(tag, {}).get("value", default)
FieldValue(fields, tag, default) ==
    IF HasField(fields, tag)
    THEN fields[CHOOSE i \in 1..Len(fields) : fields[i].tag = tag].value
    ELSE default

RECURSIVE ParseLoop(_, _, _)
\* the while loop of parse_emv_structure, from position pos (counted from 0)
ParseLoop(pix_code, pos, fields) ==
    IF ~(pos < Len(pix_code) - 4) \/ pos + 4 > Len(pix_code)
    THEN fields
    ELSE LET tag == Slice(pix_code, pos, pos + 2)
             digits == Slice(pix_code, pos + 2, pos + 4)
         IN  IF ~IsInt2(digits)
             THEN fields
             ELSE LET length == Int2(digits)
                      start == pos + 4
                  IN  IF start + length > Len(pix_code)
                      THEN fields
                      ELSE ParseLoop(pix_code, start + length,
                                     FieldsPut(fields, tag, length,
                                               Slice(pix_code, start, start + length)))

REQUIRED_FIELDS == {<<"0", "0">>, <<"0", "1">>, <<"2", "6">>, <<"5", "2">>, <<"5", "3">>, <<"5", "8">>, <<"5", "9">>, <<"6", "0">>}

\* validate_pix.parse_emv_structure
parse_emv_structure(pix_code) ==
    LET fields == ParseLoop(pix_code, 0, << >>)
        missing_fields == {t \in REQUIRED_FIELDS : ~HasField(fields, t)}
    IN  IF missing_fields # {}
        THEN [raised |-> TRUE, fields_count |-> 0, payload_format |-> << >>,
              point_of_initiation |-> << >>, merchant_name |-> << >>,
              merchant_city |-> << >>, amount |-> << >>]
        ELSE [raised |-> FALSE, fields_count |-> Len(fields),
              payload_format |-> FieldValue(fields, <<"0", "0">>, << >>),
              point_of_initiation |-> FieldValue(fields, <<"0", "1">>, << >>),
              merchant_name |-> FieldValue(fields, <<"5", "9">>, << >>),
              merchant_city |-> FieldValue(fields, <<"6", "0">>, << >>),
              amount |-> FieldValue(fields, <<"5", "4">>, <<"N", "/", "A">>)]

\* ------------------------------------------------------------------------
\* The local generators of a simulated payload, applied to any amount,
\* reference id and interpreter hash
\* ------------------------------------------------------------------------
\* the length of the longest reference id handed to a generator: with the 4
\* characters of the sub-field header it no longer fits a 2-digit length
MaxRefLen == 96

GenAmounts == {1, 100, AMOUNT_CENTS, 250000, 99999999}

GenReferences ==
    {IronId, <<"i", "r", "o", "n", "_", "0", "a", "1", "b", "2", "c", "3", "d", "4", "1">>, <<"P", "B", "-", "2", "0", "2", "5", "0", "1", "0", "1", "-", "0", "0", "0", "1">>,
     <<"9", "7", "1", "f", "2", "4", "d", "3", "-", "c", "3", "f", "9", "-", "4", "8", "c", "3", "-", "9", "6", "c", "0", "-", "6", "5", "b", "e", "7", "5", "6", "9", "f", "e", "a", "3">>,
     [i \in 1..MaxRefLen |-> "r"]}

\* abs(hash(pix_code)) differs from one interpreter run to the next
GenHashes == {7421, 123456789, 40000}

GenUuid == <<"0", "1", "2", "3", "4", "5", "6", "7", "8", "9", "a", "b", "c", "d", "e", "f", "0", "1", "2", "3", "4", "5", "6", "7", "8", "9", "a", "b", "c", "d", "e", "f">>

GenIron(amount, transaction_hash, pyhash) ==
    /\ gen' = [generator |-> "Iron Pay", amount |-> amount, reference |-> transaction_hash,
               uuid |-> << >>, pyhash |-> pyhash,
               parts |-> IronPixParts(amount, transaction_hash),
               pix_code |-> IronSimulatedPixCode(amount, transaction_hash, pyhash),
               crc_ok |-> "unchecked"]
    /\ UNCHANGED <<reqvars, adcall, stcall, paybets, rtcall, epcall>>

GenPayBets(valor, protocolo, uuid_hex, pyhash) ==
    /\ gen' = [generator |-> "PayBets", amount |-> valor, reference |-> protocolo,
               uuid |-> uuid_hex, pyhash |-> pyhash,
               parts |-> PayBetsPixParts(valor, protocolo, uuid_hex),
               pix_code |-> gerar_codigo_pix_simulado(valor, protocolo, uuid_hex, pyhash),
               crc_ok |-> "unchecked"]
    /\ UNCHANGED <<reqvars, adcall, stcall, paybets, rtcall, epcall>>

\* c.upper() of one ASCII character
UpperChar(c) ==
    IF Ascii(c) >= 97 /\ Ascii(c) <= 122 THEN AsciiTable[Ascii(c) - 32 - 31] ELSE c

\* s.upper()
Upper(s) == [i \in 1..Len(s) |-> UpperChar(s[i])]

\* validate_pix.check_crc16 (the payloads are ASCII, so nothing raises)
check_crc16(pix_code) ==
    LET code_without_crc == Take(pix_code, Len(pix_code) - Min(4, Len(pix_code)))
        provided_crc == LastN(pix_code, 4)
        calculated_crc == calculate_crc16_ccitt(code_without_crc \o <<"6", "3", "0", "4">>)
    IN  Upper(provided_crc) = Upper(calculated_crc)

\* payload bodies that end in the checksum header 6304
CrcPrefixes ==
    {<<"0", "0", "0", "2", "0", "1", "6", "3", "0", "4">>,
     Join(IronPixParts(AMOUNT_CENTS, IronId)),
     Take(FallbackPixMemo[1], Len(FallbackPixMemo[1]) - 4)}

\* payloads handed to check_crc16: each body closed with its CRC-16, with
\* the CRC-16 in lower case, with the CRC-16 of the body followed by a second
\* 6304, and with four digits that are no checksum
CrcPayloads ==
    UNION {{b \o calculate_crc16_ccitt(b),
            b \o Lower(calculate_crc16_ccitt(b)),
            b \o calculate_crc16_ccitt(b \o <<"6", "3", "0", "4">>),
            b \o <<"0", "0", "0", "0">>} : b \in CrcPrefixes}

CheckCrc(pix_code) ==
    /\ gen' = [NoGen EXCEPT !.pix_code = pix_code,
                            !.crc_ok = Flag(check_crc16(pix_code))]
    /\ UNCHANGED <<reqvars, adcall, stcall, paybets, rtcall, epcall>>

NextGenerators ==
    \/ \E a \in GenAmounts, h \in GenReferences, p \in GenHashes : GenIron(a, h, p)
    \/ \E a \in GenAmounts, h \in GenReferences, p \in GenHashes :
           GenPayBets(a, h, GenUuid, p)
    \/ \E pix_code \in CrcPayloads : CheckCrc(pix_code)

SpecGenerators == Init /\ [][NextGenerators]_vars

IsHexDigit(c) ==
    c \in {"0", "1", "2", "3", "4", "5", "6", "7", "8", "9",
           "A", "B", "C", "D", "E", "F", "a", "b", "c", "d", "e", "f"}

\* C18: a locally generated payload starts with 00020101, contains the PIX
\* domain marker, ends with 6304 and 4 hexadecimal digits, and is 50 to 512
\* characters long
C18_PayloadShape ==
    gen.generator # "" =>
        LET pix_code == gen.pix_code
        IN  /\ StartsWith(pix_code, <<"0", "0", "0", "2", "0", "1", "0", "1">>)
            /\ Contains(Lower(pix_code), <<"b", "r", ".", "g", "o", "v", ".", "b", "c", "b", ".", "p", "i", "x">>)
            /\ Len(pix_code) >= 8
            /\ Slice(pix_code, Len(pix_code) - 8, Len(pix_code) - 4) = <<"6", "3", "0", "4">>
            /\ \A i \in 1..4 : IsHexDigit(LastN(pix_code, 4)[i])
            /\ 50 <= Len(pix_code) /\ Len(pix_code) <= 512

\* C19: the 4 characters after 6304 are the CRC-16/CCITT-FALSE of the
\* payload up to and including 6304, as calculate_crc16_ccitt computes it
C19_SuffixIsCrc16 ==
    gen.generator # "" =>
        LastN(gen.pix_code, 4) =
            calculate_crc16_ccitt(Take(gen.pix_code, Len(gen.pix_code) - 4))

\* the merchant name each generator encodes, and the city
EncodedMerchantName ==
    IF gen.generator = "Iron Pay" THEN <<"I", "R", "O", "N", " ", "P", "A", "Y">> ELSE <<"D", "E", "M", "O", "N", "S", "T", "R", "A", "C", "A", "O">>

EncodedMerchantCity == <<"B", "R", "A", "S", "I", "L", "I", "A">>

\* a part is a 2-digit tag, the 2-digit length of its value, and the value
WellFormedField(part) ==
    /\ Len(part) >= 4
    /\ IsDigit(part[1]) /\ IsDigit(part[2]) /\ IsDigit(part[3]) /\ IsDigit(part[4])
    /\ Int2(Slice(part, 2, 4)) = Len(part) - 4

\* C20: parse_emv_structure recovers from a locally generated payload the
\* merchant name, the city and the amount that were encoded, and every field
\* of the payload is tag, length of the value, value
C20_ParseRecoversFields ==
    gen.generator # "" =>
        LET parsed == parse_emv_structure(gen.pix_code)
        IN  /\ ~parsed.raised
            /\ parsed.merchant_name = EncodedMerchantName
            /\ parsed.merchant_city = EncodedMerchantCity
            /\ parsed.amount = Dec(gen.amount)
            /\ \A i \in 1..(Len(gen.parts) - 1) : WellFormedField(gen.parts[i])

\* ------------------------------------------------------------------------
\* Properties of the fields of a locally generated payload
\* ------------------------------------------------------------------------
\* the place of the amount field and of the additional-data field in
\* pix_parts
AmountPart == gen.parts[6]

AdditionalDataPart == gen.parts[10]

\* C21: the amount field (tag 54) carries the amount in major units with
\* exactly two decimal digits and a '.' (11835 hundredths give "118.35")
C21_AmountHasTwoDecimals ==
    gen.generator # "" =>
        AmountPart = <<"5", "4">> \o Fmt02d(Len(FormatAmount(gen.amount)))
                           \o FormatAmount(gen.amount)

\* C22: the additional-data field (tag 62) and its sub-field 05 carry a
\* length prefix of exactly 2 digits equal to the length of what follows, a
\* longer reference id being truncated
C22_ReferenceFitsLengthPrefix ==
    gen.generator # "" =>
        LET part == AdditionalDataPart
            sub == Slice(part, 4, Len(part))
        IN  /\ WellFormedField(part)
            /\ Slice(part, 0, 2) = <<"6", "2">>
            /\ WellFormedField(sub)
            /\ Slice(sub, 0, 2) = <<"0", "5">>
            /\ StartsWith(gen.reference, Slice(sub, 4, Len(sub)))

\* ------------------------------------------------------------------------
\* Properties of the QR image
\* ------------------------------------------------------------------------
\* create_pix_payment of the adapter named
CreateOf(adapter, data, env) ==
    CASE adapter = "ZentraPay" -> ZentraCreate(data, env)
      [] adapter = "Iron Pay" -> IronCreate(data, env)
      [] adapter = "Nova Era" -> NovaEraCreate(data, env)
      [] OTHER -> PayBetsCreate(data, env)

\* what the last call would have returned had the image been rendered
WithQrRendered == CreateOf(adcall.adapter, adcall.data, [adcall.env EXCEPT !.qr_ok = TRUE])

\* C23: when the QR image cannot be rendered, a create_pix_payment that
\* would otherwise have returned a transaction id and a payload still
\* returns them, with an empty image, and raises nothing
C23_QrFailureDoesNotAbort ==
    (/\ adcall.adapter # ""
     /\ ~adcall.env.qr_ok
     /\ WithQrRendered.ok
     /\ WithQrRendered.resp.transaction_id # << >>
     /\ WithQrRendered.resp.pix_code # << >>) =>
        /\ adcall.res.ok
        /\ adcall.res.resp.transaction_id = WithQrRendered.resp.transaction_id
        /\ adcall.res.resp.pix_code = WithQrRendered.resp.pix_code
        /\ adcall.res.resp.pix_qr_code = << >>
        /\ WithQrRendered.resp.pix_qr_code # << >>

C23_Witness ==
    /\ adcall.adapter = "ZentraPay"
    /\ ~adcall.env.qr_ok
    /\ adcall.res.ok
    /\ adcall.res.resp.transaction_id = ZentraId(1)
    /\ adcall.res.resp.pix_code = ProviderPix
    /\ adcall.res.resp.pix_qr_code = << >>

\* C24: check_crc16 answers true exactly for the payloads whose last 4
\* characters are the CRC-16/CCITT-FALSE of all the characters before them
C24_CheckCrcAcceptsValid ==
    gen.crc_ok # "unchecked" =>
        (gen.crc_ok = "true") <=>
            (LastN(gen.pix_code, 4) =
                 calculate_crc16_ccitt(Take(gen.pix_code, Len(gen.pix_code) - 4)))

\* ------------------------------------------------------------------------
\* Properties of the chain once a provider has accepted the payment
\* ------------------------------------------------------------------------
\* the provider answered the create call with HTTP 200 or 201
ZentraAccepted(env) == env.failures < MAX_RETRIES /\ env.code \in {200, 201}

\* C25: once ZentraPay has accepted the create call of a request, no later
\* step of that request fails in a way that sends the chain on to Iron Pay,
\* where a second transaction would be created
C25_NoSecondProviderAfterAcceptance ==
    [][\A r \in Requests :
          ~(\E env \in ZentraEnvs(r) :
                /\ ZentraAccepted(env)
                /\ TryZentra(r, env)
                /\ pc'[r] = "iron")
      ]_vars

\* ------------------------------------------------------------------------
\* Properties of the answers served from the cache
\* ------------------------------------------------------------------------
\* C26: the answer served from the cache equals the answer given when the
\* entry was created on transaction id, amount, PIX payload, QR image,
\* status and provider
C26_CachedResponseEqualsOriginal ==
    \A r1 \in Requests, r2 \in Requests :
        (/\ SequentialPair(r1, r2)
         /\ input[r2].cpf = input[r1].cpf
         /\ pc[r2] = "done"
         /\ resp[r2].cached = "true") =>
            /\ resp[r2].transaction_id = resp[r1].transaction_id
            /\ resp[r2].amount = resp[r1].amount
            /\ resp[r2].pix_code = resp[r1].pix_code
            /\ resp[r2].qr_code_image = resp[r1].qr_code_image
            /\ resp[r2].status = resp[r1].status
            /\ resp[r2].provider = resp[r1].provider

\* ------------------------------------------------------------------------
\* What a request leaves alone
\* ------------------------------------------------------------------------
\* _send_pushcut_notification is called once an adapter has produced the
\* payment, in the same stretch as the adapter call
PushcutSent(r) == \E i \in 1..Len(attempts[r]) : attempts[r][i].ok

\* r was answered from the cache or with the 400 of a missing field
AnsweredWithoutPayment(r) ==
    /\ pc[r] = "done"
    /\ resp[r].cached = "true" \/ resp[r].http = 400

\* the places a request passes through on its way to such an answer
LookupPlaces == {"cache_test", "cache_read", "cache_check"}

\* C27: the steps of a request that lead to an answer from the cache or to a
\* 400 for a missing field leave the whole cache as it was, invoke no
\* adapter and send no notification; and no step of a request adds, removes
\* or changes the entry of another tax id
C27_LookupLeavesCacheAlone ==
    [][\A r \in Requests :
          Stepped(r) =>
              /\ (pc'[r] \in LookupPlaces \/ AnsweredWithoutPayment(r)') =>
                     /\ pix_cache' = pix_cache
                     /\ attempts'[r] = << >>
                     /\ ~PushcutSent(r)'
              /\ \A k \in (DOMAIN pix_cache \cup DOMAIN pix_cache') \ {KeyOf(r)'} :
                     /\ k \in DOMAIN pix_cache
                     /\ k \in DOMAIN pix_cache'
                     /\ pix_cache'[k] = pix_cache[k]
      ]_vars

\* a request was answered from the cache while the cache also held the
\* entry of another tax id
C27_Witness ==
    \E r \in Requests :
        /\ AnsweredWithoutPayment(r)
        /\ resp[r].cached = "true"
        /\ attempts[r] = << >>
        /\ KeyOf(r) \in DOMAIN pix_cache
        /\ \E k \in DOMAIN pix_cache : k # KeyOf(r)

\* ------------------------------------------------------------------------
\* _make_request_with_retry called on its own, for any max_retries and any
\* run of the network
\* ------------------------------------------------------------------------
MaxRetriesArg == 4

MaxFailures == 5

RetryCodes == {200, 201, 401, 404, 500}

RetryCall(max_retries, failures, final, code) ==
    /\ rtcall' = [max_retries |-> max_retries, failures |-> failures, final |-> final,
                  code |-> code,
                  res |-> RetryFrom(max_retries, failures, final, 0)]
    /\ UNCHANGED <<reqvars, adcall, stcall, paybets, gen, epcall>>

NextRetry ==
    \E max_retries \in 0..MaxRetriesArg, failures \in 0..MaxFailures,
       final \in {"response", "exception"}, code \in RetryCodes :
        RetryCall(max_retries, failures, final, code)

SpecRetry == Init /\ [][NextRetry]_vars

\* C28: _make_request_with_retry makes at most max_retries attempts, goes on
\* to another attempt only after a connection or timeout exception, returns
\* the first response whatever its HTTP status, raises once max_retries
\* attempts have failed, and for every max_retries ends by returning a
\* response or by raising
C28_RetryReturnsOrRaises ==
    rtcall.final # "" =>
        /\ rtcall.res.attempts <= rtcall.max_retries
        /\ rtcall.res.attempts <= rtcall.failures + 1
        /\ (rtcall.failures < rtcall.max_retries /\ rtcall.final = "response") =>
               /\ ~rtcall.res.raised
               /\ rtcall.res.attempts = rtcall.failures + 1
        /\ rtcall.failures >= rtcall.max_retries =>
               /\ rtcall.res.raised
               /\ rtcall.res.attempts = rtcall.max_retries
        /\ ~rtcall.res.none

\* ------------------------------------------------------------------------
\* The status endpoints /api/verificar-pagamento/<id> and
\* /check-payment-status/<id>.  zentra and iron are what each provider does
\* when it is asked about the transaction.
\* ------------------------------------------------------------------------
EndpointAnswer(status, paid, pending, failed, provider) ==
    [http |-> 200, status |-> status, paid |-> paid, pending |-> pending,
     failed |-> failed, provider |-> provider]

\* the answer of both endpoints when no provider could be asked
DemoAnswer(failed) == EndpointAnswer("pending", FALSE, TRUE, failed, "Fallback")

\* verificar_pagamento: ZentraPay is asked; Iron Pay only when asking
\* ZentraPay raised
verificar_pagamento(transaction_id, zentra, iron) ==
    LET zentra_result == ZentraCheckStatus(transaction_id, zentra)
    IN  IF ~zentra_result.raised
        THEN EndpointAnswer(zentra_result.status, zentra_result.paid = "true",
                            zentra_result.pending # "false", "absent", "ZentraPay")
        ELSE IF ~iron.token
        THEN DemoAnswer("absent")
        ELSE LET fallback == IronCheckStatus(transaction_id, iron)
             IN  EndpointAnswer(fallback.status, fallback.paid = "true",
                                fallback.status = "pending", "absent",
                                "Iron Pay (Fallback)")

\* check_payment_status of app.py: Iron Pay is asked
check_payment_status(transaction_id, iron) ==
    IF ~iron.token
    THEN DemoAnswer("false")
    ELSE LET iron_result == IronCheckStatus(transaction_id, iron)
         IN  EndpointAnswer(iron_result.status, iron_result.paid = "true",
                            iron_result.status = "pending",
                            Flag(iron_result.status = "failed"), "Iron Pay")

EndpointZentraEnvs ==
    {[BaseEnv(1) EXCEPT !.body = [OkBody(ZentraId(1)) EXCEPT !.status = st]] :
        st \in StatusStrings}
    \cup {[BaseEnv(1) EXCEPT !.code = 404],
          [BaseEnv(1) EXCEPT !.code = 500],
          [BaseEnv(1) EXCEPT !.failures = MAX_RETRIES],
          [BaseEnv(1) EXCEPT !.body.json = FALSE]}

EndpointIronEnvs ==
    {[BaseEnv(1) EXCEPT !.body = [OkBody(IronId) EXCEPT !.status = st]] :
        st \in {"absent", "pending", "paid", "failed"}}
    \cup {[BaseEnv(1) EXCEPT !.code = 500],
          [BaseEnv(1) EXCEPT !.failures = 1],
          [BaseEnv(1) EXCEPT !.body.json = FALSE],
          [BaseEnv(1) EXCEPT !.token = FALSE]}

EndpointIds == {ZentraId(1), IronId}

VerificarPagamento(transaction_id, zentra, iron) ==
    /\ epcall' = [endpoint |-> "/api/verificar-pagamento", transaction_id |-> transaction_id,
                  zentra |-> zentra, iron |-> iron,
                  answer |-> verificar_pagamento(transaction_id, zentra, iron)]
    /\ UNCHANGED <<reqvars, adcall, stcall, paybets, gen, rtcall>>

CheckPaymentStatus(transaction_id, iron) ==
    /\ epcall' = [endpoint |-> "/check-payment-status", transaction_id |-> transaction_id,
                  zentra |-> BaseEnv(1), iron |-> iron,
                  answer |-> check_payment_status(transaction_id, iron)]
    /\ UNCHANGED <<reqvars, adcall, stcall, paybets, gen, rtcall>>

NextEndpoints ==
    \/ \E id \in EndpointIds, zentra \in EndpointZentraEnvs, iron \in EndpointIronEnvs :
           VerificarPagamento(id, zentra, iron)
    \/ \E id \in EndpointIds, iron \in EndpointIronEnvs : CheckPaymentStatus(id, iron)

SpecEndpoints == Init /\ [][NextEndpoints]_vars

\* ZentraPay cannot report on the id: it does not know it, answers with an
\* HTTP error, or cannot be reached
ZentraCannotReport(zentra) ==
    zentra.failures >= MAX_RETRIES \/ zentra.code # 200 \/ ~zentra.body.json

\* Iron Pay reports the transaction as paid
IronReportsPaid(iron) ==
    /\ iron.token
    /\ iron.failures = 0
    /\ iron.code = 200
    /\ iron.body.json
    /\ iron.body.status = "paid"

\* C29: a poll of /api/verificar-pagamento for an Iron Pay transaction on
\* which ZentraPay cannot report consults Iron Pay: when Iron Pay reports
\* the transaction as paid, the poll answers pago = true
C29_IronPaidIsReported ==
    (/\ epcall.endpoint = "/api/verificar-pagamento"
     /\ epcall.transaction_id = IronId
     /\ ZentraCannotReport(epcall.zentra)
     /\ IronReportsPaid(epcall.iron)) =>
        /\ epcall.answer.paid
        /\ epcall.answer.provider = "Iron Pay (Fallback)"

PaidStatuses == {"paid", "completed", "approved"}

PendingStatuses == {"pending", "waiting_payment"}

\* C30: in every answer of the status endpoints at most one of paid,
\* pending and failed is true, paid is true only for a paid-type status and
\* pending only for a pending-type status
C30_FlagsAgreeWithStatus ==
    epcall.endpoint # "" =>
        LET a == epcall.answer
        IN  /\ ~(a.paid /\ a.pending)
            /\ ~(a.paid /\ a.failed = "true")
            /\ ~(a.pending /\ a.failed = "true")
            /\ a.paid => a.status \in PaidStatuses
            /\ a.pending => a.status \in PendingStatuses

====
